---- MODULE Spec2Model ----
(***************************************************************************)
(* Model of akshare_etf_fetcher.py: the ETF screening pipeline             *)
(* fetch_etf_data (universe snapshot -> liquidity filter -> ranking and    *)
(* truncation -> per-candidate history and Sharpe score -> envelope) and   *)
(* the pure function calculate_sharpe_ratio.                               *)
(*                                                                         *)
(* Numbers.  Prices, turnover and change are integers.  A float computed   *)
(* by the Sharpe function is one of                                        *)
(*   [k |-> "nan"]                       IEEE NaN                          *)
(*   [k |-> "inf", s |-> 1 | -1]         IEEE +inf / -inf                  *)
(*   [k |-> "fin", n |-> a, d |-> b]     the rational a/b, b > 0, reduced  *)
(*   [k |-> "root", s, n, d]             s * sqrt(n/d), s in {1,-1},       *)
(*                                       n/d > 0 reduced                   *)
(* so the square roots of std() and of 252 ** 0.5 are kept exact.          *)
(*                                                                         *)
(* Rows.  A row of the universe frame is known by its index label (its     *)
(* position in the snapshot); the label stands for the code and the name.  *)
(* A frame selected from etf_basic is the sequence of its index labels.    *)
(***************************************************************************)
EXTENDS Integers, Sequences, FiniteSets, TLC

VARIABLES
    pc,              \* where fetch_etf_data (or the Sharpe harness) stands
    provider,        \* the Market Data Provider's answers for this run
    etf_basic,       \* line 24: the universe frame
    valid_etfs,      \* line 29: index labels of the rows the filter keeps
    sorted_etfs,     \* line 35: index labels after sort_values
    candidate_etfs,  \* line 35: index labels after head(50)
    pos,             \* line 41: position of the loop in candidate_etfs
    history,         \* line 54: the frame of the latest history fetch
    result_data,     \* line 40
    out,             \* the envelope fetch_etf_data returns
    fetches,         \* number of calls of ak.fund_etf_hist_sina so far
    sharpe_call,     \* the latest call of calculate_sharpe_ratio
    sharpe           \* its result

vars == <<pc, provider, etf_basic, valid_etfs, sorted_etfs, candidate_etfs,
          pos, history, result_data, out, fetches, sharpe_call, sharpe>>

----------------------------------------------------------------------------
(* Program constants *)

\* line 10: if len(returns) < 10
MinReturns == 10
\* line 16: 252 ** 0.5
TradingDays == 252
\* line 30: etf_basic["成交额(万元)"] > 1000
MinTurnover == 1000
\* line 31: etf_basic["最新价"] > 0
MinPrice == 0
\* line 35: .head(50)
MaxCandidates == 50
\* line 55: if len(history) < 20
MinBars == 20

(* Bounds of the model *)

\* longest close sequence given to calculate_sharpe_ratio on its own
MaxBars == 11
\* number of freely chosen rows at the head of a universe snapshot
MaxHead == 2

----------------------------------------------------------------------------
(* Exact arithmetic for the floats of calculate_sharpe_ratio *)

Abs(x) == IF x < 0 THEN -x ELSE x

Sign(x) == IF x < 0 THEN -1 ELSE IF x = 0 THEN 0 ELSE 1

RECURSIVE GCD(_, _)
GCD(a, b) == IF b = 0 THEN a ELSE GCD(b, a % b)

NaN == [k |-> "nan"]

Inf(s) == [k |-> "inf", s |-> s]

\* the rational a/b (b # 0), reduced, with a positive denominator
Fin(a, b) ==
    LET g == GCD(Abs(a), Abs(b))
    IN  [k |-> "fin", n |-> Sign(b) * (a \div g), d |-> Abs(b) \div g]

Zero == Fin(0, 1)

One == Fin(1, 1)

\* IEEE addition on nan / inf / rationals
FAdd(x, y) ==
    IF x.k = "nan" \/ y.k = "nan" THEN NaN
    ELSE IF x.k = "inf" /\ y.k = "inf" THEN (IF x.s = y.s THEN x ELSE NaN)
    ELSE IF x.k = "inf" THEN x
    ELSE IF y.k = "inf" THEN y
    ELSE Fin(x.n * y.d + y.n * x.d, x.d * y.d)

FNeg(x) ==
    IF x.k = "nan" THEN NaN
    ELSE IF x.k = "inf" THEN Inf(-x.s)
    ELSE Fin(-x.n, x.d)

FSub(x, y) == FAdd(x, FNeg(y))

\* IEEE multiplication: inf * 0 is nan
FMul(x, y) ==
    IF x.k = "nan" \/ y.k = "nan" THEN NaN
    ELSE IF x.k = "inf" /\ y.k = "inf" THEN Inf(x.s * y.s)
    ELSE IF x.k = "inf" THEN (IF y.n = 0 THEN NaN ELSE Inf(x.s * Sign(y.n)))
    ELSE IF y.k = "inf" THEN (IF x.n = 0 THEN NaN ELSE Inf(y.s * Sign(x.n)))
    ELSE Fin(x.n * y.n, x.d * y.d)

\* numpy float division of two closes: x/0 is +-inf, 0/0 is nan
IntDiv(a, b) ==
    IF b = 0 THEN (IF a = 0 THEN NaN ELSE Inf(Sign(a)))
    ELSE Fin(a, b)

\* sqrt of a float that is nan, +inf or a rational >= 0
FSqrt(x) ==
    IF x.k = "nan" THEN NaN
    ELSE IF x.k = "inf" THEN (IF x.s = 1 THEN x ELSE NaN)
    ELSE IF x.n < 0 THEN NaN
    ELSE IF x.n = 0 THEN Zero
    ELSE [k |-> "root", s |-> 1, n |-> x.n, d |-> x.d]

\* root * sqrt(c) for an integer c > 0 (std * (252 ** 0.5))
RootScale(x, c) ==
    IF x.k = "root"
    THEN LET f == Fin(x.n * c, x.d)
         IN  [k |-> "root", s |-> x.s, n |-> f.n, d |-> f.d]
    ELSE IF x.k = "fin" THEN (IF x.n = 0 THEN Zero ELSE NaN)
    ELSE x

\* fin / root, the only quotient line 18 forms with a finite non-zero
\* volatility; anything / nan is nan
FQuot(x, v) ==
    IF x.k = "nan" \/ v.k = "nan" THEN NaN
    ELSE IF v.k = "inf" THEN (IF x.k = "inf" THEN NaN ELSE Zero)
    ELSE IF x.k = "inf" THEN Inf(x.s * v.s)
    ELSE IF x.n = 0 THEN Zero
    ELSE LET f == Fin(x.n * x.n * v.d, x.d * x.d * v.n)
         IN  [k |-> "root", s |-> Sign(x.n) * v.s, n |-> f.n, d |-> f.d]

RECURSIVE FSum(_)
FSum(s) == IF s = <<>> THEN Zero ELSE FAdd(Head(s), FSum(Tail(s)))

RECURSIVE FProd(_)
FProd(s) == IF s = <<>> THEN One ELSE FMul(Head(s), FProd(Tail(s)))

----------------------------------------------------------------------------
(* calculate_sharpe_ratio, lines 6-18 *)

\* Series.pct_change(): close[i] / close[i-1] - 1, nan in the first place
pct_change(close) ==
    [i \in 1..Len(close) |->
        IF i = 1 THEN NaN
        ELSE FSub(IntDiv(close[i], close[i - 1]), One)]

IsNotNa(x) == x.k # "nan"

\* Series.dropna()
dropna(s) == SelectSeq(s, IsNotNa)

\* line 9
returns_of(close) == dropna(pct_change(close))

\* line 14: (1 + returns).prod() - 1
cum_return_of(returns) ==
    FSub(FProd([i \in 1..Len(returns) |-> FAdd(One, returns[i])]), One)

\* Series.std(): sample standard deviation (ddof = 1) of at least 2 values
std_of(returns) ==
    LET n    == Len(returns)
        mean == FMul(FSum(returns), Fin(1, n))
        dev2 == [i \in 1..n |->
                    FMul(FSub(returns[i], mean), FSub(returns[i], mean))]
    IN  FSqrt(FMul(FSum(dev2), Fin(1, n - 1)))

\* line 16: returns.std() * (252 ** 0.5)
volatility_of(returns) == RootScale(std_of(returns), TradingDays)

\* the guard written as len(returns) <= 10
TooFewReturnsInclusive(returns) == Len(returns) <= MinReturns

\* line 10: the short-sample guard
TooFewReturns(returns) == Len(returns) < MinReturns

\* line 18: volatility != 0 (nan != 0 is true)
VolatilityNonZero(volatility) == volatility # Zero

\* lines 9-18 on the close column: the value returned, with the number of
\* returns line 10 saw and the return statement taken
sharpe_of_close(close) ==
    LET returns == returns_of(close)
    IN  IF TooFewReturns(returns)
        THEN [value |-> Zero, nreturns |-> Len(returns), branch |-> "short"]
        ELSE LET cum_return == cum_return_of(returns)
                 volatility == volatility_of(returns)
             IN  IF VolatilityNonZero(volatility)
                 THEN [value |-> FQuot(cum_return, volatility),
                       nreturns |-> Len(returns), branch |-> "ratio"]
                 ELSE [value |-> Zero, nreturns |-> Len(returns),
                       branch |-> "zerovol"]

\* calculate_sharpe_ratio(history_data): history_data["close"] raises
\* KeyError on a frame without that column
calculate_sharpe_ratio(history_data) ==
    IF history_data.hasClose
    THEN [exc |-> "none"] @@ sharpe_of_close(history_data.close)
    ELSE [exc |-> "KeyError", value |-> NaN, nreturns |-> 0, branch |-> "raise"]

\* round(sharpe, 4), line 68: 0.0 and nan are kept, any other value is
\* carried as the rounding of the exact value
Round4(x) ==
    IF x = Zero \/ x.k \in {"nan", "inf"} THEN x
    ELSE [k |-> "round4", of |-> x]

----------------------------------------------------------------------------
(* The Market Data Provider: what ak.fund_etf_category_sina() and          *)
(* ak.fund_etf_hist_sina() answer during one run                           *)

\* a history answer: the call raises, or a frame of n bars whose closes are
\* a for the first half and b for the rest, with or without a close column
Hist(raises, hasClose, n, a, b) ==
    [raises |-> raises, hasClose |-> hasClose, n |-> n, a |-> a, b |-> b]

HistRaises == Hist(TRUE, FALSE, 0, 0, 0)

HistKinds ==
    { HistRaises,
      Hist(FALSE, FALSE, MinBars, 1, 1),
      Hist(FALSE, TRUE, MinBars - 1, 1, 1),
      Hist(FALSE, TRUE, MinBars, 1, 1),
      Hist(FALSE, TRUE, MinBars, 1, 2),
      Hist(FALSE, TRUE, MinBars, 0, 0),
      Hist(FALSE, TRUE, MinBars + 1, 2, 1),
      Hist(FALSE, TRUE, MinReturns, 1, 2) }

\* the frame fund_etf_hist_sina returns for a non-raising answer
HistoryFrame(h) ==
    [hasClose |-> h.hasClose,
     close |-> [i \in 1..h.n |-> IF 2 * i <= h.n + 1 THEN h.a ELSE h.b]]

NoFrame == [hasClose |-> FALSE, close |-> <<>>]

\* a row of the snapshot; codeIsStr: the code and name cells are strings
Entry(turnover, price, change, codeIsStr, hist) ==
    [turnover |-> turnover, price |-> price, change |-> change,
     codeIsStr |-> codeIsStr, hist |-> hist]

\* rows that fail the liquidity or the price predicate (nothing else of
\* them is ever read)
DroppedKinds ==
    { Entry(MinTurnover, MinPrice + 1, 1, TRUE, HistRaises),
      Entry(MinTurnover + 1, MinPrice, 1, TRUE, HistRaises) }

\* rows that pass both, with a low or a high change
LiquidKinds ==
    { Entry(MinTurnover + 1, MinPrice + 1, c, TRUE, h) :
        c \in {1, MaxCandidates + 10}, h \in HistKinds }
    \cup
    { Entry(MinTurnover + 1, MinPrice + 1, 1, FALSE, HistRaises) }

EntryKinds == DroppedKinds \cup LiquidKinds

\* n liquid rows with the distinct changes 2 .. n+1 in ascending order
Ramp(n, h) ==
    [j \in 1..n |-> Entry(MinTurnover + j, MinPrice + 1, j + 1, TRUE, h)]

Heads(kinds) == UNION { [1..n -> kinds] : n \in 0..MaxHead }

\* the rows chosen in front of a ramp: dropped, ranked first with a failing
\* history, or ranked last (and tied with each other) with a good one
RampHeadKinds ==
    { Entry(MinTurnover, MinPrice + 1, 1, TRUE, HistRaises),
      Entry(MinTurnover + 1, MinPrice + 1, MaxCandidates + 10, TRUE, HistRaises),
      Entry(MinTurnover + 1, MinPrice + 1, MaxCandidates + 10, TRUE,
            Hist(FALSE, FALSE, MinBars, 1, 1)),
      Entry(MinTurnover + 1, MinPrice + 1, 1, TRUE, Hist(FALSE, TRUE, MinBars, 1, 2)) }

\* the universe answers: the call raises, a frame without the expected
\* columns, or a frame of rows
Universes ==
    { [raises |-> TRUE, columns |-> FALSE, rows |-> <<>>],
      [raises |-> FALSE, columns |-> FALSE, rows |-> Ramp(1, HistRaises)] }
    \cup
    { [raises |-> FALSE, columns |-> TRUE, rows |-> h] : h \in Heads(EntryKinds) }
    \cup
    { [raises |-> FALSE, columns |-> TRUE,
       rows |-> h \o Ramp(MaxCandidates - 1, Hist(FALSE, TRUE, MinBars, 1, 2))] :
        h \in Heads(RampHeadKinds) }

\* DataFrame rows as the pipeline sees them: the index label and the cells
FrameRows(rows) ==
    [i \in 1..Len(rows) |->
        [idx |-> i, turnover |-> rows[i].turnover, price |-> rows[i].price,
         change |-> rows[i].change, codeIsStr |-> rows[i].codeIsStr]]

----------------------------------------------------------------------------
(* fetch_etf_data, lines 20-86 *)

EmptyUniverseMsg == "empty universe"

NoCandidatesMsg == "no qualifying ETF after the liquidity filter"

EmptyPoolMsg == "candidate pool is empty"

\* lines 84-86: the top-level handler's envelope
ErrorEnvelope(msg) == [error |-> msg, timestamp |-> "now"]

\* lines 78-82
SuccessEnvelope(data) ==
    [data |-> data, timestamp |-> "now", count |-> Len(data)]

NoEnvelope == [pending |-> TRUE]

\* the top-level handler written as except ValueError
TopLevelCatchesValueErrorOnly(exc) == exc = "ValueError"

\* line 84: except Exception catches every failure raised in the try body
TopLevelCatches(exc) == TRUE

\* the per-candidate handler written as except ConnectionError-like / except KeyError
CandidateCatchesProviderErrorOnly(exc) == exc = "ProviderError"

CandidateCatchesKeyErrorOnly(exc) == exc = "KeyError"

\* line 70: except Exception around the history fetch and the scoring
CandidateCatches(exc) == TRUE

\* the cells of the row with index label i
Row(i) == etf_basic.rows[i]

\* the turnover predicate written as >= 1000
PassesFilterInclusive(row) == row.turnover >= MinTurnover /\ row.price > MinPrice

\* lines 30-31: the boolean mask of the filter
PassesFilter(row) == row.turnover > MinTurnover /\ row.price > MinPrice

\* lines 29-32: boolean-mask selection keeps the rows in frame order
RECURSIVE FilterRows(_)
FilterRows(rows) ==
    IF rows = <<>> THEN <<>>
    ELSE (IF PassesFilter(Head(rows)) THEN <<Head(rows).idx>> ELSE <<>>)
         \o FilterRows(Tail(rows))

\* sort_values(by=change, ascending=False) with the default kind
\* 'quicksort', which is not a stable sort: every arrangement of the rows
\* in non-increasing change is a possible result
RECURSIVE MaxChange(_)
MaxChange(S) ==
    LET i == CHOOSE i \in S : TRUE
        c == Row(i).change
    IN  IF S = {i} THEN c
        ELSE LET m == MaxChange(S \ {i}) IN IF c > m THEN c ELSE m

RECURSIVE DescendingOrders(_)
DescendingOrders(S) ==
    IF S = {} THEN { <<>> }
    ELSE LET m   == MaxChange(S)
             top == { i \in S : Row(i).change = m }
         IN  UNION { { <<i>> \o rest : rest \in DescendingOrders(S \ {i}) } :
                     i \in top }

Labels(frame) == { frame[i] : i \in 1..Len(frame) }

\* the sort left out
sort_values_omitted(frame) == { frame }

sort_values(frame) == DescendingOrders(Labels(frame))

\* head taking one row too many
head_off_by_one(frame, n) ==
    SubSeq(frame, 1, IF Len(frame) < n + 1 THEN Len(frame) ELSE n + 1)

\* DataFrame.head(n)
head(frame, n) == SubSeq(frame, 1, IF Len(frame) < n THEN Len(frame) ELSE n)

\* the bar check written as < 19, as <= 20 and as < 10
TooFewBarsOffByOne(frame) == Len(frame.close) < MinBars - 1

TooFewBarsInclusive(frame) == Len(frame.close) <= MinBars

TooFewBarsShortSample(frame) == Len(frame.close) < MinReturns

\* line 55: if len(history) < 20: continue
TooFewBars(frame) == Len(frame.close) < MinBars

\* lines 62-69
RiskScore(row, value) ==
    [symbol |-> row.idx, price |-> row.price, change |-> row.change,
     turnover |-> row.turnover, sharpe |-> Round4(value)]

\* leaving the function: return (lines 78-82, 86) or an escaping exception
Leave(exc, envelope) ==
    IF exc = "none" \/ TopLevelCatches(exc)
    THEN pc' = "returned" /\ out' = envelope
    ELSE pc' = "raised" /\ out' = NoEnvelope

\* lines 24-26
FetchUniverse ==
    /\ pc = "start"
    /\ IF provider.raises
       THEN /\ Leave("ProviderError", ErrorEnvelope("ProviderError"))
            /\ UNCHANGED etf_basic
       ELSE /\ etf_basic' = [columns |-> provider.columns,
                             rows |-> FrameRows(provider.rows)]
            /\ IF provider.rows = <<>>
               THEN Leave("ValueError", ErrorEnvelope(EmptyUniverseMsg))
               ELSE pc' = "select" /\ UNCHANGED out
    /\ UNCHANGED <<provider, valid_etfs, sorted_etfs, candidate_etfs, pos,
                   history, result_data, fetches, sharpe_call, sharpe>>

\* lines 29-40
SelectCandidates ==
    /\ pc = "select"
    /\ IF ~etf_basic.columns
       THEN /\ Leave("KeyError", ErrorEnvelope("KeyError"))
            /\ UNCHANGED <<valid_etfs, sorted_etfs, candidate_etfs>>
       ELSE /\ valid_etfs' = FilterRows(etf_basic.rows)
            /\ sorted_etfs' \in sort_values(valid_etfs')
            /\ candidate_etfs' = head(sorted_etfs', MaxCandidates)
            /\ IF candidate_etfs' = <<>>
               THEN Leave("ValueError", ErrorEnvelope(NoCandidatesMsg))
               ELSE pc' = "loop" /\ UNCHANGED out
    /\ UNCHANGED <<provider, etf_basic, pos, history, result_data, fetches,
                   sharpe_call, sharpe>>

\* lines 41-72: one iteration of the loop over candidate_etfs
ProcessCandidate ==
    /\ pc = "loop"
    /\ pos <= Len(candidate_etfs)
    /\ LET row == Row(candidate_etfs[pos])
           h   == provider.rows[row.idx].hist
           frame == HistoryFrame(h)
       IN  IF ~row.codeIsStr
           THEN \* line 42: .strip() on a cell that is not a string
                /\ Leave("AttributeError", ErrorEnvelope("AttributeError"))
                /\ UNCHANGED <<pos, history, result_data, fetches,
                               sharpe_call, sharpe>>
           ELSE /\ fetches' = fetches + 1
                /\ IF h.raises
                   THEN \* line 54 raises
                        /\ UNCHANGED <<history, result_data, sharpe_call, sharpe>>
                        /\ IF CandidateCatches("ProviderError")
                           THEN pos' = pos + 1 /\ UNCHANGED <<pc, out>>
                           ELSE /\ Leave("ProviderError", ErrorEnvelope("ProviderError"))
                                /\ UNCHANGED pos
                   ELSE /\ history' = frame
                        /\ IF TooFewBars(history')
                           THEN \* lines 55-57
                                /\ pos' = pos + 1
                                /\ UNCHANGED <<pc, out, result_data, sharpe_call, sharpe>>
                           ELSE /\ sharpe_call' = [arg |-> history',
                                                   ret |-> calculate_sharpe_ratio(history')]
                                /\ IF sharpe_call'.ret.exc # "none"
                                   THEN \* line 60 raises
                                        /\ UNCHANGED <<result_data, sharpe>>
                                        /\ IF CandidateCatches(sharpe_call'.ret.exc)
                                           THEN pos' = pos + 1 /\ UNCHANGED <<pc, out>>
                                           ELSE /\ Leave(sharpe_call'.ret.exc,
                                                      ErrorEnvelope(sharpe_call'.ret.exc))
                                                /\ UNCHANGED pos
                                   ELSE \* lines 60-69
                                        /\ sharpe' = sharpe_call'.ret.value
                                        /\ result_data' = Append(result_data,
                                                             RiskScore(row, sharpe'))
                                        /\ pos' = pos + 1
                                        /\ UNCHANGED <<pc, out>>
    /\ UNCHANGED <<provider, etf_basic, valid_etfs, sorted_etfs, candidate_etfs>>

\* lines 74-82, after the loop
Finish ==
    /\ pc = "loop"
    /\ pos > Len(candidate_etfs)
    /\ IF result_data = <<>>
       THEN Leave("ValueError", ErrorEnvelope(EmptyPoolMsg))
       ELSE Leave("none", SuccessEnvelope(result_data))
    /\ UNCHANGED <<provider, etf_basic, valid_etfs, sorted_etfs, candidate_etfs,
                   pos, history, result_data, fetches, sharpe_call, sharpe>>

NoSharpeCall ==
    [arg |-> NoFrame,
     ret |-> [exc |-> "none", value |-> Zero, nreturns |-> 0, branch |-> "none"]]

Init ==
    /\ pc = "start"
    /\ provider \in Universes
    /\ etf_basic = [columns |-> FALSE, rows |-> <<>>]
    /\ valid_etfs = <<>>
    /\ sorted_etfs = <<>>
    /\ candidate_etfs = <<>>
    /\ pos = 1
    /\ history = NoFrame
    /\ result_data = <<>>
    /\ out = NoEnvelope
    /\ fetches = 0
    /\ sharpe_call = NoSharpeCall
    /\ sharpe = Zero

Next ==
    \/ FetchUniverse
    \/ SelectCandidates
    \/ ProcessCandidate
    \/ Finish

Spec == Init /\ [][Next]_vars

----------------------------------------------------------------------------
(* Properties of fetch_etf_data (checked under Spec) *)

Returned == pc = "returned"

IsSuccess == Returned /\ DOMAIN out = {"data", "timestamp", "count"}

IsError == Returned /\ DOMAIN out = {"error", "timestamp"}

\* line 25 is reached and etf_basic.empty holds
EmptyUniverse == ~provider.raises /\ provider.rows = <<>>

\* the filter and the ranking (lines 29-35) have run
FilterRan ==
    \/ pc = "loop"
    \/ Returned /\ etf_basic.columns /\ etf_basic.rows # <<>>

\* a usable non-empty snapshot in which no row passes both predicates
NoQualifying ==
    /\ ~provider.raises /\ provider.columns /\ provider.rows # <<>>
    /\ \A i \in 1..Len(provider.rows) :
          provider.rows[i].turnover <= MinTurnover \/ provider.rows[i].price <= MinPrice

HistOf(i) == provider.rows[i].hist

\* the history of row i is fetched and has at least 20 bars
FetchedWithEnoughBars(i) == ~HistOf(i).raises /\ HistOf(i).n >= MinBars

\* ... and its Sharpe computation does not raise either
Scorable(i) == FetchedWithEnoughBars(i) /\ HistOf(i).hasClose

\* fetching or processing the history of row i fails
HistoryFails(i) == HistOf(i).raises \/ (HistOf(i).n >= MinBars /\ ~HistOf(i).hasClose)

\* the loop ran over every candidate
LoopDone == FilterRan /\ candidate_etfs # <<>> /\ pos > Len(candidate_etfs)

\* the row fields of the candidate the loop stands at cannot be read
RowUnreadable ==
    /\ FilterRan /\ pos <= Len(candidate_etfs)
    /\ ~Row(candidate_etfs[pos]).codeIsStr

Symbols(data) == [i \in 1..Len(data) |-> data[i].symbol]

NonIncreasing(frame) ==
    \A i \in 1..Len(frame) - 1 : Row(frame[i]).change >= Row(frame[i + 1]).change

\* C1: every invocation ends by returning exactly one envelope, with the keys
\* data and count and no error key, or with the key error and neither data
\* nor count; no exception escapes, and no envelope exists before the return.
C1_EnvelopeExclusive ==
    /\ pc \in {"start", "select", "loop", "returned"}
    /\ Returned =>
          \/ DOMAIN out = {"data", "timestamp", "count"}
          \/ DOMAIN out = {"error", "timestamp"}
    /\ ~Returned => out = NoEnvelope

\* C1 witness: an error envelope returned after history fetches were made
C1_Witness == IsError /\ fetches > 0

\* C2: a loop iteration whose history fetch raises or whose history is
\* malformed leaves result_data and the envelope untouched and moves on to
\* the next candidate; and once the loop is over, a non-empty result_data
\* always gives the success envelope.
C2_CandidateFailureAbsorbed ==
    [][ /\ ( /\ pc = "loop" /\ pos <= Len(candidate_etfs)
             /\ Row(candidate_etfs[pos]).codeIsStr
             /\ HistoryFails(candidate_etfs[pos]) )
           => ( /\ pc' = "loop" /\ pos' = pos + 1
                /\ result_data' = result_data /\ out' = out )
        /\ ( pc = "loop" /\ pos > Len(candidate_etfs) /\ result_data # <<>> )
           => ( pc' = "returned" /\ "data" \in DOMAIN out' /\ out'.data = result_data )
      ]_vars

\* C2 witness: a success envelope of a run in which one candidate's history
\* fetch raised and another candidate's history had no close column
C2_Witness ==
    /\ IsSuccess
    /\ \E i \in Labels(candidate_etfs) : HistOf(i).raises
    /\ \E i \in Labels(candidate_etfs) : ~HistOf(i).raises /\ ~HistOf(i).hasClose

\* C3 as stated: an error envelope only under one of the three emptiness
\* conditions.
C3_Original ==
    IsError => EmptyUniverse \/ NoQualifying \/ (LoopDone /\ result_data = <<>>)

\* C3 amended: an error envelope is returned exactly when an exception
\* reaches the top-level handler: the three emptiness errors, the snapshot
\* fetch raising, the snapshot lacking the columns the filter reads, or a
\* candidate row whose code/name cell cannot be read; otherwise the success
\* envelope is returned.
C3_ErrorCauses ==
    Returned =>
       /\ IsError \/ IsSuccess
       /\ IsError <=>
            \/ provider.raises
            \/ EmptyUniverse
            \/ ~provider.raises /\ ~provider.columns
            \/ NoQualifying
            \/ RowUnreadable
            \/ LoopDone /\ result_data = <<>>

\* C3 witness: an error envelope although candidates were already scored
C3_Witness == IsError /\ result_data # <<>> /\ RowUnreadable

\* C4: the three emptiness conditions each give their own message, in
\* pipeline order: empty snapshot (nothing filtered), no qualifying row (no
\* history fetched), every candidate skipped.
C4_EmptinessErrors ==
    /\ EmptyUniverseMsg # NoCandidatesMsg
    /\ EmptyUniverseMsg # EmptyPoolMsg
    /\ NoCandidatesMsg # EmptyPoolMsg
    /\ Returned =>
         /\ EmptyUniverse =>
              out = ErrorEnvelope(EmptyUniverseMsg) /\ fetches = 0
         /\ NoQualifying =>
              out = ErrorEnvelope(NoCandidatesMsg) /\ fetches = 0
         /\ ( /\ FilterRan /\ candidate_etfs # <<>>
              /\ \A i \in Labels(candidate_etfs) :
                    Row(i).codeIsStr /\ ~Scorable(i) )
            => out = ErrorEnvelope(EmptyPoolMsg) /\ fetches = Len(candidate_etfs)

\* C4 witness: a sole candidate with exactly 19 bars ends in the empty-pool
\* error
C4_Witness ==
    /\ IsError /\ out.error = EmptyPoolMsg
    /\ Len(candidate_etfs) = 1
    /\ ~HistOf(candidate_etfs[1]).raises
    /\ HistOf(candidate_etfs[1]).n = MinBars - 1

\* C5: the filter keeps exactly the rows with turnover > 1000 and price > 0,
\* in snapshot order.
C5_FilterCorrect ==
    FilterRan =>
       /\ \A k \in 1..Len(valid_etfs) - 1 : valid_etfs[k] < valid_etfs[k + 1]
       /\ \A i \in 1..Len(etf_basic.rows) :
             i \in Labels(valid_etfs)
             <=> (etf_basic.rows[i].turnover > 1000 /\ etf_basic.rows[i].price > 0)

\* C5 witness: a row with turnover exactly 1000 and a row with price exactly
\* 0 are both dropped from a snapshot
C5_Witness ==
    /\ FilterRan
    /\ \E i, j \in 1..Len(etf_basic.rows) :
          /\ etf_basic.rows[i].turnover = 1000 /\ etf_basic.rows[i].price > 0
          /\ etf_basic.rows[j].price = 0 /\ etf_basic.rows[j].turnover > 1000
          /\ i \notin Labels(valid_etfs) /\ j \notin Labels(valid_etfs)

\* C6 as stated: non-increasing in change, and rows of equal change in
\* filter-output order, also across the cut at the 50th position.
C6_Original ==
    FilterRan =>
       /\ NonIncreasing(sorted_etfs)
       /\ \A i, j \in 1..Len(sorted_etfs) :
             (i < j /\ Row(sorted_etfs[i]).change = Row(sorted_etfs[j]).change)
             => sorted_etfs[i] < sorted_etfs[j]

\* C6 amended: the ranked sequence is a rearrangement of the filtered
\* sequence in non-increasing change; the order of rows of equal change is
\* not determined.
C6_RankedOrder ==
    FilterRan =>
       /\ NonIncreasing(sorted_etfs)
       /\ NonIncreasing(candidate_etfs)
       /\ Len(sorted_etfs) = Len(valid_etfs)
       /\ Labels(sorted_etfs) = Labels(valid_etfs)

\* C6 witness: 51 filtered rows whose last two ranks hold rows of equal
\* change against their filter order, so that the later row of the snapshot
\* is the one that survives the cut at the 50th position
C6_Witness ==
    /\ FilterRan
    /\ Len(sorted_etfs) = MaxCandidates + 1
    /\ Row(sorted_etfs[MaxCandidates]).change
          = Row(sorted_etfs[MaxCandidates + 1]).change
    /\ sorted_etfs[MaxCandidates] > sorted_etfs[MaxCandidates + 1]
    /\ sorted_etfs[MaxCandidates] \in Labels(candidate_etfs)
    /\ sorted_etfs[MaxCandidates + 1] \notin Labels(candidate_etfs)
    /\ Row(sorted_etfs[1]).change > Row(sorted_etfs[MaxCandidates]).change

\* C7: the candidate set is the first min(50, filtered size) rows of the
\* ranked order; at most 50 histories are fetched and a success count is at
\* most 50.
C7_TruncationBound ==
    /\ fetches <= 50
    /\ IsSuccess => out.count <= 50
    /\ FilterRan =>
         /\ Len(candidate_etfs) <= 50
         /\ Len(candidate_etfs) =
               (IF Len(valid_etfs) < 50 THEN Len(valid_etfs) ELSE 50)
         /\ candidate_etfs = SubSeq(sorted_etfs, 1, Len(candidate_etfs))
         /\ fetches <= Len(candidate_etfs)

\* C7 witness: more than 50 filtered rows, 50 histories fetched, count 50
C7_Witness ==
    IsSuccess /\ Len(valid_etfs) > 50 /\ fetches = 50 /\ out.count = 50

\* C8 as stated: data is the ranked candidates whose history fetch
\* succeeded with at least 20 bars.
C8_Original ==
    IsSuccess =>
       Symbols(out.data) = SelectSeq(candidate_etfs, FetchedWithEnoughBars)

\* C8 amended: data is, in ranked order and each once, the candidates whose
\* history fetch succeeded with at least 20 bars and whose Sharpe
\* computation did not raise; count is its length, at least 1.
C8_SuccessData ==
    IsSuccess =>
       /\ Symbols(out.data) = SelectSeq(candidate_etfs, Scorable)
       /\ \A i \in 1..Len(out.data) :
             /\ out.data[i].price = Row(out.data[i].symbol).price
             /\ out.data[i].change = Row(out.data[i].symbol).change
             /\ out.data[i].turnover = Row(out.data[i].symbol).turnover
       /\ out.count = Len(out.data)
       /\ out.count >= 1

\* C8 witness: a success envelope that holds a candidate with exactly 20
\* bars and leaves out one whose 20-bar history has no close column
C8_Witness ==
    /\ IsSuccess
    /\ \E i \in Labels(candidate_etfs) :
          /\ HistOf(i).n = MinBars /\ HistOf(i).hasClose
          /\ i \in Labels(Symbols(out.data))
    /\ \E i \in Labels(candidate_etfs) :
          /\ HistOf(i).n = MinBars /\ ~HistOf(i).raises /\ ~HistOf(i).hasClose
          /\ i \notin Labels(Symbols(out.data))

\* a close sequence without two consecutive zero closes (0/0 is nan, which
\* dropna removes)
NoZeroPair(close) ==
    \A i \in 1..Len(close) - 1 : ~(close[i] = 0 /\ close[i + 1] = 0)

SharpeCalled == sharpe_call.ret.branch \in {"short", "zerovol", "ratio"}

\* C10 as stated: inside fetch_etf_data a history without missing closes
\* never reaches the fewer-than-10-returns branch and always gives at least
\* 19 returns.
C10_Original ==
    (pc # "sharpe" /\ pc # "scored" /\ SharpeCalled) =>
       sharpe_call.ret.branch # "short" /\ sharpe_call.ret.nreturns >= 19

\* C10 amended: inside fetch_etf_data a history without missing closes and
\* without two consecutive zero closes gives calculate_sharpe_ratio at least
\* 19 returns and never reaches the fewer-than-10-returns branch.
C10_ShortSampleUnreachable ==
    (pc # "sharpe" /\ pc # "scored" /\ SharpeCalled
       /\ NoZeroPair(sharpe_call.arg.close)) =>
       /\ Len(sharpe_call.arg.close) >= 20
       /\ sharpe_call.ret.nreturns = Len(sharpe_call.arg.close) - 1
       /\ sharpe_call.ret.nreturns >= 19
       /\ sharpe_call.ret.branch # "short"

\* C10 witness: calculate_sharpe_ratio called on exactly 20 bars without a
\* zero close, getting 19 returns
C10_Witness ==
    /\ pc = "loop" /\ SharpeCalled
    /\ NoZeroPair(sharpe_call.arg.close)
    /\ Len(sharpe_call.arg.close) = 20
    /\ sharpe_call.ret.nreturns = 19

----------------------------------------------------------------------------
(* calculate_sharpe_ratio on its own: the function applied to price        *)
(* sequences of up to MaxBars bars                                         *)

\* closes 1, 2, 4, ...: every daily return is exactly 1
Doubling(n) == [i \in 1..n |-> 2 ^ (i - 1)]

PriceSequences ==
    UNION { [1..n -> {1, 2}] \cup [1..n -> {0, 1}] \cup { Doubling(n) } :
            n \in 0..MaxBars }

InitSharpe ==
    /\ pc = "sharpe"
    /\ history \in { [hasClose |-> TRUE, close |-> c] : c \in PriceSequences }
    /\ provider = [raises |-> TRUE, columns |-> FALSE, rows |-> <<>>]
    /\ etf_basic = [columns |-> FALSE, rows |-> <<>>]
    /\ valid_etfs = <<>>
    /\ sorted_etfs = <<>>
    /\ candidate_etfs = <<>>
    /\ pos = 1
    /\ result_data = <<>>
    /\ out = NoEnvelope
    /\ fetches = 0
    /\ sharpe_call = NoSharpeCall
    /\ sharpe = Zero

\* line 60 taken alone: sharpe = calculate_sharpe_ratio(history)
ScoreHistory ==
    /\ pc = "sharpe"
    /\ sharpe_call' = [arg |-> history, ret |-> calculate_sharpe_ratio(history)]
    /\ sharpe' = sharpe_call'.ret.value
    /\ pc' = "scored"
    /\ UNCHANGED <<provider, etf_basic, valid_etfs, sorted_etfs, candidate_etfs,
                   pos, history, result_data, out, fetches>>

NextSharpe == ScoreHistory

SpecSharpe == InitSharpe /\ [][NextSharpe]_vars

(* Properties of calculate_sharpe_ratio (checked under SpecSharpe) *)

Constant(close) == \A i \in 1..Len(close) : close[i] = close[1]

\* C9: the function never raises on a price sequence; fewer than 10 returns
\* give 0.0; a computed volatility of exactly 0 gives 0.0 whatever the
\* cumulative return (so does a constant close); every other sequence gives
\* cumulative return / volatility.
C9_SharpeEdgeCases ==
    pc = "scored" =>
       LET returns    == returns_of(history.close)
           cum_return == cum_return_of(returns)
           volatility == volatility_of(returns)
       IN  /\ sharpe_call.ret.exc = "none"
           /\ Len(returns) < 10 => sharpe = Zero
           /\ (Len(returns) >= 10 /\ volatility = Zero) => sharpe = Zero
           /\ Constant(history.close) => sharpe = Zero
           /\ (Len(returns) >= 10 /\ volatility # Zero)
                 => sharpe = FQuot(cum_return, volatility)

\* C9 witness: at least 10 returns, volatility exactly 0 and a non-zero
\* cumulative return, scored 0.0
C9_Witness ==
    /\ pc = "scored"
    /\ Len(returns_of(history.close)) >= 10
    /\ volatility_of(returns_of(history.close)) = Zero
    /\ cum_return_of(returns_of(history.close)) # Zero
    /\ sharpe = Zero

====
